---------------------------- MODULE Spec2Model ----------------------------
(***************************************************************************)
(* Model of the blog backend (the Convex functions on the posts table),    *)
(* the public post page loader and the admin layout guard of the           *)
(* sveltekit-convex starter.                                               *)
(*                                                                         *)
(*   Spec         the posts functions, each mutation one transaction,      *)
(*                called by the signed-in admin                            *)
(*   SpecCallers  the same functions called by any client                  *)
(*   SpecTxn      concurrent create calls, executed as Convex executes a   *)
(*                mutation: read, then commit or run again                 *)
(*   SpecAdmin    the browser: the admin layout (either version), the      *)
(*                sign-in page and the auth sessions                       *)
(*   SpecEditor   the browser: the new-post page with its persisted draft  *)
(*                and the edit page, their validation and their submit     *)
(*   SpecSlug     the browser: the title and slug fields of the two pages, *)
(*                the title typed key by key, and generateSlug             *)
(*                                                                         *)
(* A post keeps the fields the handlers read, branch on or stamp: slug,    *)
(* published, publishedAt, createdAt, updatedAt.  The text payload (title, *)
(* content, excerpt, tags) is copied from the arguments and read by no     *)
(* handler; it is left out of the documents.                               *)
(***************************************************************************)
EXTENDS Integers, Sequences, FiniteSets, TLC

\* ------------------------------------------------------------------ bounds
\* number of document ids the posts table ever hands out
MaxPosts == 2
\* largest value Date.now() takes
MaxTime == 2
\* number of clients that call create concurrently
MaxClients == 2
\* number of sessions the auth tables ever hold
MaxSessions == 2
\* number of mutations one editor page may have in flight
MaxInFlight == 2
\* number of characters typed into the title field, one key at a time
MaxLen == 4

\* ------------------------------------------------------------- value sets
\* v.optional(v.number()): the value of publishedAt while it is not set
\* (an unset field sorts before every number in an index)
Undefined == 0
\* an optional value (an optional argument, the result of .first() or of
\* db.get) is a set: empty when absent or null, else holding the value
Absent == {}
Some(v) == {v}
Get(o) == CHOOSE v \in o : TRUE
Opt(S) == {Absent} \cup {Some(v) : v \in S}

Slugs == {"", "a"}
Ids == 1..MaxPosts
Clients == 1..MaxClients
Times == 1..MaxTime
\* ctx.auth.getUserIdentity(): null for an unauthenticated caller
Null == "null"
Identities == {Null, "user"}

ErrSlugExists == "A post with this slug already exists"
ErrNotFound == "Post not found"
ErrNonexistent == "Delete on nonexistent document"

VARIABLES
    posts,      \* the posts table: document id -> document
    nextId,     \* the next document id the table hands out (ids are never reused)
    now,        \* the last value Date.now() returned
    last,       \* the last backend call: its name, caller, arguments and outcome
    txn,        \* per client, the create mutation it has in execution
    writes,     \* per slug, the number of committed writes to its by_slug range
    deployed,   \* which admin +layout.svelte the site is built with
    url,        \* the browser's location: path and redirect query parameter
    layout,     \* the state of the admin layout component
    localStorage,   \* the session id under 'convex-auth-session-id', if any
    authSessions,   \* the authSessions table: session id -> expirationTime
    storedUserId,   \* the user id under 'convex-auth-user-id', if any
    authCall,   \* the last call of signIn or signOut of auth-client: its outcome
    editor,     \* the post editor page (new or edit): its form and its submit
    draft       \* the draft persisted under 'blog-new-draft'

\* the state of the mutations in execution
txnVars == <<txn, writes>>
\* the state of the browser and of the auth tables
pageVars == <<deployed, url, layout, localStorage, authSessions,
              storedUserId, authCall>>
\* the state of the post editor pages
editorVars == <<editor, draft>>
\* the state outside the posts table that a backend call leaves alone
outside == <<txnVars, pageVars, editorVars>>
\* the state of the posts backend
backendVars == <<posts, nextId, last, txnVars>>

vars == <<posts, nextId, now, last, txn, writes,
          deployed, url, layout, localStorage, authSessions,
          storedUserId, authCall, editor, draft>>

\* ---------------------------------------------------------------- helpers
\* ctx.db.query('posts').withIndex('by_slug', q => q.eq('slug', slug)): the
\* documents of one slug, which the index orders by creation
BySlug(tbl, slug) == {i \in DOMAIN tbl : tbl[i].slug = slug}

Min(S) == CHOOSE x \in S : \A y \in S : x <= y

\* .first() of an index range: the oldest document, or null
First(S) == IF S = {} THEN Absent ELSE Some(Min(S))

\* slugExists with the exclusion test inverted: without an excludeId nothing
\* counts as a duplicate
slugExists_NoExclude(tbl, slug, excludeId) ==
    LET existing == First(BySlug(tbl, slug))
    IN  IF existing = Absent THEN FALSE
        ELSE IF excludeId = Absent \/ existing = excludeId THEN FALSE
        ELSE TRUE

slugExists(tbl, slug, excludeId) ==
    LET existing == First(BySlug(tbl, slug))
    IN  IF existing = Absent THEN FALSE
        ELSE IF excludeId # Absent /\ existing = excludeId THEN FALSE
        ELSE TRUE

\* the record of a call that returned
Ok(op, identity, slug, id) ==
    [op |-> op, identity |-> identity, slug |-> slug, id |-> id,
     ok |-> TRUE, error |-> ""]

\* the record of a call that threw
Threw(op, identity, slug, id, msg) ==
    [op |-> op, identity |-> identity, slug |-> slug, id |-> id,
     ok |-> FALSE, error |-> msg]

\* ---------------------------------------------------------------- queries
\* an index range in descending order: S holds <<key, id>> pairs, and an
\* index orders the documents of one key by creation
\* the index read in ascending order
Greater_Asc(a, b) == a[1] < b[1] \/ (a[1] = b[1] /\ a[2] < b[2])

Greater(a, b) == a[1] > b[1] \/ (a[1] = b[1] /\ a[2] > b[2])

RECURSIVE Desc(_)
Desc(S) ==
    IF S = {} THEN <<>>
    ELSE LET m == CHOOSE x \in S : \A y \in S \ {x} : Greater(x, y)
         IN  <<m>> \o Desc(S \ {m})

\* .take(n)
Take(seq, n) == SubSeq(seq, 1, IF n < Len(seq) THEN n ELSE Len(seq))

\* the ids of a sequence of <<key, id>> pairs
IdsOf(seq) == [k \in 1..Len(seq) |-> seq[k][2]]

\* the limit of listPublished when none is given
DefaultLimit == 20

\* withIndex('by_published', q => q.eq('published', true)): the index is on
\* [published, publishedAt]
\* the index read without its q.eq('published', true) range
PublishedRange_All(tbl) == {<<tbl[i].publishedAt, i>> : i \in DOMAIN tbl}

PublishedRange(tbl) ==
    {<<tbl[i].publishedAt, i>> : i \in {j \in DOMAIN tbl : tbl[j].published}}

\* listPublished: the ids of the documents whose listing fields it returns
listPublished(tbl, limit) ==
    IdsOf(Take(Desc(PublishedRange(tbl)),
               IF limit = Absent THEN DefaultLimit ELSE Get(limit)))

\* getBySlug without its test of post.published
getBySlug_Drafts(tbl, slug) == First(BySlug(tbl, slug))

\* getBySlug: the id of the document it returns, or null
getBySlug(tbl, slug) ==
    LET post == First(BySlug(tbl, slug))
    IN  IF post = Absent THEN Absent
        ELSE IF ~tbl[Get(post)].published THEN Absent
        ELSE post

\* the by_created index read for the published posts only
CreatedRange_Published(tbl) ==
    {<<tbl[i].createdAt, i>> : i \in {j \in DOMAIN tbl : tbl[j].published}}

\* withIndex('by_created').order('desc')
CreatedRange(tbl) == {<<tbl[i].createdAt, i>> : i \in DOMAIN tbl}

\* listAll: .paginate({numItems, cursor}); a cursor is the index position
\* <<createdAt, id>> of the last document of the page before
listAll(tbl, numItems, cursor) ==
    LET rest == IF cursor = Absent THEN CreatedRange(tbl)
                ELSE {e \in CreatedRange(tbl) : Greater(Get(cursor), e)}
        page == Take(Desc(rest), numItems)
    IN  [page |-> IdsOf(page),
         isDone |-> Len(page) = Cardinality(rest),
         continueCursor |-> IF Len(page) = 0 THEN cursor
                            ELSE Some(page[Len(page)])]

\* getById: ctx.db.get(id)
getById(tbl, id) == IF id \in DOMAIN tbl THEN Some(id) ELSE Absent

\* the elements of a sequence
Range(seq) == {seq[k] : k \in 1..Len(seq)}

\* a client with no mutation in execution
Idle ==
    [pc |-> "idle", slug |-> "", published |-> FALSE, t |-> 0, exists |-> FALSE,
     seen |-> 0, raced |-> {}, ok |-> FALSE, error |-> ""]

\* the two admin layouts: the one that asks the isAuthenticated query with the
\* stored session id, and the one that uses the Better Auth client
Layouts == {"session", "betterAuth"}
AdminPaths == {"/admin", "/admin/new"}
SignInPath == "/auth/sign-in"
SignUpPath == "/auth/sign-up"
SessionIds == 1..MaxSessions

\* the admin layout as it is when it mounts: stored is the session id it reads
\* from localStorage
Mounted(stored) ==
    [isLoading |-> TRUE, isAuthenticated |-> FALSE, currentPath |-> "",
     sessionId |-> stored, data |-> "undefined"]

\* the auth-client of a browser that has made no call yet
NoAuthCall ==
    [op |-> "none", outcome |-> "ok", success |-> FALSE, threw |-> FALSE,
     error |-> "", session |-> Absent, before |-> Absent]

\* ------------------------------------------------------- text of the forms
\* The text of a form field is a sequence of runs, each a character repeated
\* n >= 1 times, so that the length limits of validatePost are the real ones.
\* " " stands for the white space, "a" for the lower-case letters and digits,
\* "A" for the upper-case letters, "-" and "_" for themselves and "!" for
\* every other character.  Adjacent runs are of different characters, so that
\* equal texts are equal sequences.
Run(c, n) == <<[c |-> c, n |-> n]>>

\* the characters of the keyboard
Chars == {"a", "A", " ", "-", "_", "!"}

\* the text of a sequence of runs: adjacent runs of one character are one run
RECURSIVE Text(_)
Text(runs) ==
    IF Len(runs) < 2 THEN runs
    ELSE IF runs[1].c = runs[2].c
    THEN Text(Run(runs[1].c, runs[1].n + runs[2].n) \o SubSeq(runs, 3, Len(runs)))
    ELSE <<runs[1]>> \o Text(Tail(runs))

\* text.length
RECURSIVE Length(_)
Length(text) == IF text = <<>> THEN 0 ELSE text[1].n + Length(Tail(text))

\* text.trim(): the text without its leading and trailing white space
RECURSIVE TrimStart(_)
TrimStart(text) ==
    IF text # <<>> /\ text[1].c = " " THEN TrimStart(Tail(text)) ELSE text

RECURSIVE TrimEnd(_)
TrimEnd(text) ==
    IF text # <<>> /\ text[Len(text)].c = " "
    THEN TrimEnd(SubSeq(text, 1, Len(text) - 1)) ELSE text

trim(text) == TrimEnd(TrimStart(text))

\* /^[a-z0-9-]+$/.test(text)
SlugChars == {"a", "-"}
SlugPattern(text) == text # <<>> /\ \A k \in 1..Len(text) : text[k].c \in SlugChars

\* text.toLowerCase()
toLowerCase(text) ==
    Text([k \in DOMAIN text |-> [text[k] EXCEPT !.c = IF @ = "A" THEN "a" ELSE @]])

\* /[^\w\s-]/: neither a word character (letter, digit, underscore), nor
\* white space, nor a hyphen
NotWordSpaceHyphen(r) == r.c \notin {"a", "A", "_", " ", "-"}
WordSpaceHyphen(r) == ~NotWordSpaceHyphen(r)

\* /[\s_-]/
Separators == {" ", "_", "-"}

\* text.replace(/[\s_-]+/g, '-')
RECURSIVE Hyphenated(_)
Hyphenated(text) ==
    IF text = <<>> THEN <<>>
    ELSE IF text[1].c \notin Separators THEN <<text[1]>> \o Hyphenated(Tail(text))
    ELSE IF Len(text) >= 2 /\ text[2].c \in Separators
    THEN Hyphenated(Tail(text))
    ELSE Run("-", 1) \o Hyphenated(Tail(text))

\* text.replace(/^-+|-+$/g, '')
RECURSIVE Unhyphened(_)
Unhyphened(text) ==
    IF text # <<>> /\ text[1].c = "-" THEN Unhyphened(Tail(text))
    ELSE IF text # <<>> /\ text[Len(text)].c = "-"
    THEN Unhyphened(SubSeq(text, 1, Len(text) - 1))
    ELSE text

\* slugify without its last replace
slugify_NoStrip(text) ==
    Hyphenated(Text(SelectSeq(trim(toLowerCase(text)), WordSpaceHyphen)))

\* slugify of both editor pages
slugify(text) ==
    Unhyphened(Hyphenated(Text(SelectSeq(trim(toLowerCase(text)), WordSpaceHyphen))))

\* the limits of validatePost
TitleMax == 200
ExcerptMax == 500

\* what the fields of a form are filled with
Titles == {<<>>, Run("a", 1), Run("a", TitleMax) \o Run(" ", 1)}
SlugTexts == {Run(" ", 1), Run("a", 1), Run("A", 1)}
Excerpts == {<<>>, Run("a", 1), Run("a", ExcerptMax + 1)}
Contents == {Run(" ", 1), Run("a", 1)}

\* the fields of a form that validatePost reads.  The tags field is bound,
\* saved and loaded with the others and read by no rule; it is left out.
Fields == {"title", "slug", "excerpt", "content"}
Values(field) ==
    CASE field = "title" -> Titles
      [] field = "slug" -> SlugTexts
      [] field = "excerpt" -> Excerpts
      [] field = "content" -> Contents

\* let title = $state(''), ...: the form as the page declares it, which is
\* also the default of the persisted draft
EmptyDraft ==
    [title |-> <<>>, slug |-> <<>>, excerpt |-> <<>>, content |-> <<>>]

\* the posts the edit page is opened on, as getById returns them
StoredPosts ==
    {[title |-> Run("a", 1), slug |-> Run("a", 1), excerpt |-> Run("a", 1),
      content |-> Run("a", 1)],
     [title |-> Run("a", TitleMax), slug |-> Run("a", 1),
      excerpt |-> Run("a", 1), content |-> Run("a", 1)]}

\* an editor page as it is declared: page is "new" or "edit"; data is what
\* the edit page reads of query.data after it has loaded it into the form,
\* which is its slug, and is absent until it arrives; error is '' for null;
\* pending holds the mutations the page has called and that have not
\* returned; submitted tells that handleSubmit is the handler that ran last,
\* blurred that generateSlug is
Declared(page) ==
    [page |-> page, data |-> Absent, form |-> EmptyDraft, error |-> "",
     isSubmitting |-> FALSE, isDeleting |-> FALSE, pending |-> <<>>,
     submitted |-> FALSE, blurred |-> FALSE]

\* no editor page is open
Closed == Declared("none")

\* ------------------------------------------------------------------- Init
InitPage ==
    /\ url = [path |-> "/", redirect |-> Absent]
    /\ layout = Mounted(Absent)
    /\ localStorage = Absent
    /\ authSessions = <<>>
    /\ storedUserId = Absent
    /\ authCall = NoAuthCall
    /\ editor = Closed
    /\ draft = EmptyDraft

Init ==
    /\ deployed = "betterAuth"
    /\ InitPage
    /\ posts = <<>>
    /\ nextId = 1
    /\ now = 1
    /\ last = Ok("init", Null, Absent, Absent)
    /\ txn = [c \in Clients |-> Idle]
    /\ writes = [slug \in Slugs |-> 0]

\* -------------------------------------------------------------- mutations
\* an id allocator that hands out the smallest id no document has
FreshId_Reused == Min((1..(MaxPosts + 1)) \ DOMAIN posts)

\* ctx.db.insert gives the document an id no document had before
FreshId == nextId

\* the document create inserts
NewPost(slug, published, t) ==
    [slug |-> slug, published |-> published,
     publishedAt |-> IF published THEN t ELSE Undefined,
     createdAt |-> t, updatedAt |-> t]

\* create: t is the value of Date.now() in this execution
create(identity, slug, published, t) ==
    /\ nextId <= MaxPosts
    /\ now' = t
    /\ UNCHANGED outside
    /\ IF slugExists(posts, slug, Absent)
       THEN /\ last' = Threw("create", identity, Some(slug), Absent, ErrSlugExists)
            /\ UNCHANGED <<posts, nextId>>
       ELSE /\ posts' = (FreshId :> NewPost(slug, published, t)) @@ posts
            /\ nextId' = nextId + 1
            /\ last' = Ok("create", identity, Some(slug), Some(FreshId))

\* a patch that never stamps publishedAt
Patched_NoStamp(p, slug, published, t) ==
    [slug |-> IF slug = Absent THEN p.slug ELSE Get(slug),
     published |-> IF published = Absent THEN p.published ELSE Get(published),
     publishedAt |-> p.publishedAt,
     createdAt |-> p.createdAt,
     updatedAt |-> t]

\* the fields update patches: the supplied arguments, updatedAt, and
\* publishedAt when a post that was not published becomes published
Patched(p, slug, published, t) ==
    [slug |-> IF slug = Absent THEN p.slug ELSE Get(slug),
     published |-> IF published = Absent THEN p.published ELSE Get(published),
     publishedAt |-> IF published = Some(TRUE) /\ ~p.published
                     THEN t ELSE p.publishedAt,
     createdAt |-> p.createdAt,
     updatedAt |-> t]

\* updates.slug && updates.slug !== existingPost.slug: a supplied slug that
\* is a non-empty string (the empty string is falsy) and differs
SlugChanges(p, slug) == slug # Absent /\ Get(slug) # "" /\ Get(slug) # p.slug

\* update without its test of existingPost: for an id that has no post it
\* returns the id and writes nothing
update_Silent(identity, id, slug, published, t) ==
    /\ now' = t
    /\ UNCHANGED <<nextId, outside>>
    /\ IF id \notin DOMAIN posts
       THEN /\ last' = Ok("update", identity, slug, Some(id))
            /\ UNCHANGED posts
       ELSE IF SlugChanges(posts[id], slug) /\ slugExists(posts, Get(slug), Some(id))
       THEN /\ last' = Threw("update", identity, slug, Some(id), ErrSlugExists)
            /\ UNCHANGED posts
       ELSE /\ posts' = [posts EXCEPT ![id] = Patched(@, slug, published, t)]
            /\ last' = Ok("update", identity, slug, Some(id))

update(identity, id, slug, published, t) ==
    /\ now' = t
    /\ UNCHANGED <<nextId, outside>>
    /\ IF id \notin DOMAIN posts
       THEN /\ last' = Threw("update", identity, slug, Some(id), ErrNotFound)
            /\ UNCHANGED posts
       ELSE IF SlugChanges(posts[id], slug) /\ slugExists(posts, Get(slug), Some(id))
       THEN /\ last' = Threw("update", identity, slug, Some(id), ErrSlugExists)
            /\ UNCHANGED posts
       ELSE /\ posts' = [posts EXCEPT ![id] = Patched(@, slug, published, t)]
            /\ last' = Ok("update", identity, slug, Some(id))

\* the table without document id
Without(tbl, id) == [i \in DOMAIN tbl \ {id} |-> tbl[i]]

\* remove: ctx.db.delete throws for an id that has no document
remove(identity, id) ==
    /\ UNCHANGED <<nextId, now, outside>>
    /\ IF id \notin DOMAIN posts
       THEN /\ last' = Threw("remove", identity, Absent, Some(id), ErrNonexistent)
            /\ UNCHANGED posts
       ELSE /\ posts' = Without(posts, id)
            /\ last' = Ok("remove", identity, Absent, Some(id))

\* the ids update, remove and getById can be called with: those of documents
\* that exist or existed (v.id('posts') admits no other value)
IssuedIds == 1..(nextId - 1)

\* ----------------------------------------------------------- query calls
\* a query changes nothing in the database; its result is the operator of
\* its name applied to the table.  The calls of the admin queries, which
\* return drafts, are recorded with their caller
ListAll(identity) ==
    /\ last' = Ok("listAll", identity, Absent, Absent)
    /\ UNCHANGED <<posts, nextId, now, outside>>

GetById(identity, id) ==
    /\ last' = Ok("getById", identity, Absent, Some(id))
    /\ UNCHANGED <<posts, nextId, now, outside>>

\* the calls of the backend, made by callers with the given identities
NextFor(callers) ==
    \/ \E identity \in callers, slug \in Slugs,
          published \in BOOLEAN, t \in now..MaxTime :
          create(identity, slug, published, t)
    \/ \E identity \in callers, id \in IssuedIds,
          slug \in Opt(Slugs), published \in Opt(BOOLEAN), t \in now..MaxTime :
          update(identity, id, slug, published, t)
    \/ \E identity \in callers, id \in IssuedIds : remove(identity, id)
    \/ \E identity \in callers : ListAll(identity)
    \/ \E identity \in callers, id \in IssuedIds : GetById(identity, id)

\* the backend as the signed-in admin uses it
Next == NextFor({"user"})

Spec == Init /\ [][Next]_vars

\* the backend as any client can call it: the functions are public, and a
\* client need not be signed in
NextCallers == NextFor(Identities)

SpecCallers == Init /\ [][NextCallers]_vars

\* ------------------------------------------- create, as Convex executes it
\* A mutation runs as a transaction: the handler reads a snapshot of the
\* database, and its writes are committed only if no other commit has written
\* into what it read; otherwise the handler is executed again.

\* the clients that are past the slugExists check of the same slug, having
\* found no post, and have not inserted yet
Racing(c, slug, exists) ==
    {d \in Clients \ {c} :
        txn[d].pc = "running" /\ txn[d].slug = slug /\ ~txn[d].exists /\ ~exists}

\* the handler runs up to the insert: slugExists reads the by_slug range, and
\* Date.now() the clock
Begin(c, slug, published) ==
    /\ txn[c].pc \in {"idle", "done"}
    /\ nextId <= MaxPosts
    /\ LET exists == slugExists(posts, slug, Absent)
           racing == Racing(c, slug, exists)
       IN  txn' = [d \in Clients |->
                    IF d = c
                    THEN [pc |-> "running", slug |-> slug, published |-> published,
                          t |-> now, exists |-> exists, seen |-> writes[slug],
                          raced |-> racing, ok |-> FALSE, error |-> ""]
                    ELSE IF d \in racing
                    THEN [txn[d] EXCEPT !.raced = @ \cup {c}]
                    ELSE txn[d]]
    /\ UNCHANGED <<posts, nextId, now, last, writes, pageVars, editorVars>>

\* a mutation that has ended: what its client keeps is the slug it asked for
\* and the outcome
Done(m, ok, error) ==
    [Idle EXCEPT !.pc = "done", !.slug = m.slug, !.raced = m.raced,
                 !.ok = ok, !.error = error]

\* the handler threw: the mutation fails and writes nothing
Reject(c) ==
    /\ txn[c].pc = "running"
    /\ txn[c].exists
    /\ txn' = [txn EXCEPT ![c] = Done(@, FALSE, ErrSlugExists)]
    /\ UNCHANGED <<posts, nextId, now, last, writes, pageVars, editorVars>>

\* a commit that does not validate what the handler read
Conflict_Never(c) == FALSE

\* another commit wrote into the index range the handler read
Conflict(c) == writes[txn[c].slug] # txn[c].seen

\* the insert is committed
Commit(c) ==
    /\ txn[c].pc = "running"
    /\ ~txn[c].exists
    /\ ~Conflict(c)
    /\ nextId <= MaxPosts
    /\ posts' = (FreshId :> NewPost(txn[c].slug, txn[c].published, txn[c].t)) @@ posts
    /\ nextId' = nextId + 1
    /\ writes' = [writes EXCEPT ![txn[c].slug] = @ + 1]
    /\ txn' = [txn EXCEPT ![c] = Done(@, TRUE, "")]
    /\ UNCHANGED <<now, last, pageVars, editorVars>>

\* the commit fails and the handler is executed again, on the database as it
\* is now
Retry(c) ==
    /\ txn[c].pc = "running"
    /\ ~txn[c].exists
    /\ Conflict(c)
    /\ txn' = [txn EXCEPT ![c].exists = slugExists(posts, txn[c].slug, Absent),
                          ![c].seen = writes[txn[c].slug],
                          ![c].t = now]
    /\ UNCHANGED <<posts, nextId, now, last, writes, pageVars, editorVars>>

NextTxn ==
    \/ \E c \in Clients, slug \in Slugs, published \in BOOLEAN :
          Begin(c, slug, published)
    \/ \E c \in Clients : Reject(c)
    \/ \E c \in Clients : Commit(c)
    \/ \E c \in Clients : Retry(c)

SpecTxn == Init /\ [][NextTxn]_vars

\* ------------------------------------------------------- the public page
\* load of /blog/[slug], the version that hands the page whatever getBySlug
\* returned: the page is rendered with post = null
load(tbl, slug) ==
    [status |-> 200, message |-> "", post |-> getBySlug(tbl, slug)]

\* load of /blog/[slug], the version that raises error(404, 'Post not found')
loadOr404(tbl, slug) ==
    LET post == getBySlug(tbl, slug)
    IN  IF post = Absent
        THEN [status |-> 404, message |-> ErrNotFound, post |-> Absent]
        ELSE [status |-> 200, message |-> "", post |-> post]

\* ------------------------------------------------------------ admin area
\* the isAuthenticated query: userId is what auth.getUserId(ctx) returns
isAuthenticated(sessions, sessionId, userId, t) ==
    IF sessionId = Absent THEN userId # Null
    ELSE IF Get(sessionId) \notin DOMAIN sessions THEN FALSE
    ELSE LET expirationTime == sessions[Get(sessionId)]
         IN  IF expirationTime # Undefined /\ expirationTime < t THEN FALSE
             ELSE TRUE

\* the browser holds a session that exists and has not expired
Authenticated ==
    localStorage # Absent /\ isAuthenticated(authSessions, localStorage, Null, now)

\* the admin layout is on the page
InAdmin == url.path \in AdminPaths

\* what the template of the admin layout shows
Rendered ==
    IF ~InAdmin THEN "none"
    ELSE IF deployed = "session"
    THEN (IF layout.data = "undefined" THEN "loading"
          ELSE IF layout.data = "false" THEN "redirecting"
          ELSE "admin")
    ELSE (IF layout.isLoading THEN "loading" ELSE "admin")

\* goto(path?redirect=...)
Goto(path, redirect) ==
    /\ url' = [path |-> path, redirect |-> redirect]
    /\ layout' = IF path \in AdminPaths /\ ~InAdmin THEN Mounted(localStorage)
                 ELSE IF path \in AdminPaths THEN layout
                 ELSE Mounted(Absent)

\* the visitor opens an admin page by its address: the layout mounts
Visit(path) ==
    /\ url' = [path |-> path, redirect |-> Absent]
    /\ layout' = Mounted(localStorage)
    /\ UNCHANGED <<deployed, localStorage, authSessions, storedUserId, authCall,
                   now, backendVars, editorVars>>

\* useAuth(): the Better Auth client reports the state of the session
AuthResolves ==
    /\ InAdmin
    /\ deployed = "betterAuth"
    /\ layout' = [layout EXCEPT !.isLoading = FALSE, !.isAuthenticated = Authenticated]
    /\ layout' # layout
    /\ UNCHANGED <<deployed, url, localStorage, authSessions, storedUserId,
                   authCall, now, backendVars, editorVars>>

\* $effect: currentPath = $page.url.pathname
TrackPath ==
    /\ InAdmin
    /\ deployed = "betterAuth"
    /\ layout.currentPath # url.path
    /\ layout' = [layout EXCEPT !.currentPath = url.path]
    /\ UNCHANGED <<deployed, url, localStorage, authSessions, storedUserId,
                   authCall, now, backendVars, editorVars>>

\* useQuery(api.users.isAuthenticated, {sessionId}) delivers a result; the
\* client sends no token, so auth.getUserId(ctx) is null
QueryResult ==
    /\ InAdmin
    /\ deployed = "session"
    /\ layout' = [layout EXCEPT !.data =
                    IF isAuthenticated(authSessions, layout.sessionId, Null, now)
                    THEN "true" ELSE "false"]
    /\ layout' # layout
    /\ UNCHANGED <<deployed, url, localStorage, authSessions, storedUserId,
                   authCall, now, backendVars, editorVars>>

\* a redirect effect that does not wait for the authentication state: it
\* redirects whenever the state is not "authenticated"
RedirectEffect_Eager ==
    /\ InAdmin
    /\ IF deployed = "session"
       THEN /\ layout.data # "true"
            /\ Goto(SignInPath, Some(url.path))
       ELSE /\ ~layout.isAuthenticated
            /\ layout.currentPath # ""
            /\ Goto(SignInPath, Some(layout.currentPath))
    /\ UNCHANGED <<deployed, localStorage, authSessions, storedUserId, authCall,
                   now, backendVars, editorVars>>

\* $effect: redirect if not authenticated
RedirectEffect ==
    /\ InAdmin
    /\ IF deployed = "session"
       THEN /\ layout.data = "false"
            /\ Goto(SignInPath, Some(url.path))
       ELSE /\ ~layout.isLoading
            /\ ~layout.isAuthenticated
            /\ layout.currentPath # ""
            /\ Goto(SignInPath, Some(layout.currentPath))
    /\ UNCHANGED <<deployed, localStorage, authSessions, storedUserId, authCall,
                   now, backendVars, editorVars>>

\* the visitor opens the sign-in page by its address
OpenSignIn ==
    /\ url.path # SignInPath
    /\ Goto(SignInPath, Absent)
    /\ UNCHANGED <<deployed, localStorage, authSessions, storedUserId, authCall,
                   now, backendVars, editorVars>>

\* a redirectUrl that ignores the redirect parameter
redirectUrl_Admin == "/admin"

\* $page.url.searchParams.get('redirect') || '/admin'
redirectUrl == IF url.redirect = Absent THEN "/admin" ELSE Get(url.redirect)

\* the user the sign-in page signs in
UserId == "user"

\* the two localStorage keys auth-client writes: 'convex-auth-session-id' and
\* 'convex-auth-user-id'
Stored(sessionId, userId) == [sessionId |-> sessionId, userId |-> userId]

\* the messages of auth-client: that of the Error the action threw, and the
\* ones used when what was thrown has no message
ErrAction == "InvalidSecret"
ErrSignInFailed == "Sign in failed"
ErrSignUpFailed == "Sign up failed"

\* the record of a call of signIn, signUp or signOut: the outcome of the
\* Convex action it called, what it reported, whether it threw, the error it
\* returned, the session the action created and the session id that was
\* stored before the call
AuthCall(op, outcome, success, threw, error, session) ==
    [op |-> op, outcome |-> outcome, success |-> success, threw |-> threw,
     error |-> error, session |-> session, before |-> localStorage]

\* signIn of auth-client without its catch: what the action throws reaches
\* the caller
signIn_NoCatch(stored, outcome, sid) ==
    IF outcome \in {"throws", "throwsValue"}
    THEN [stored |-> stored, success |-> FALSE, threw |-> TRUE, error |-> ""]
    ELSE IF outcome = "tokens"
    THEN [stored |-> Stored(Some(sid), Some(UserId)), success |-> TRUE,
          threw |-> FALSE, error |-> ""]
    ELSE [stored |-> stored, success |-> TRUE, threw |-> FALSE, error |-> ""]

\* signIn of auth-client: the sign-in action throws an Error, or throws a
\* value that has no message, or returns without tokens, or creates session
\* sid and returns its tokens; whenever the action returned, signIn reports
\* success
signIn(stored, outcome, sid) ==
    IF outcome = "throws"
    THEN [stored |-> stored, success |-> FALSE, threw |-> FALSE,
          error |-> ErrAction]
    ELSE IF outcome = "throwsValue"
    THEN [stored |-> stored, success |-> FALSE, threw |-> FALSE,
          error |-> ErrSignInFailed]
    ELSE IF outcome = "tokens"
    THEN [stored |-> Stored(Some(sid), Some(UserId)), success |-> TRUE,
          threw |-> FALSE, error |-> ""]
    ELSE [stored |-> stored, success |-> TRUE, threw |-> FALSE, error |-> ""]

\* handleSignIn: when signIn reports success the page goes to redirectUrl,
\* else (and when signIn throws) it shows the error
handleSignIn(outcome, expirationTime) ==
    /\ url.path = SignInPath
    /\ outcome = "tokens" => Cardinality(DOMAIN authSessions) < MaxSessions
    /\ LET sid == Min(SessionIds \ DOMAIN authSessions)
           result == signIn(Stored(localStorage, storedUserId), outcome, sid)
       IN  /\ authSessions' = IF outcome = "tokens"
                              THEN (sid :> expirationTime) @@ authSessions
                              ELSE authSessions
           /\ localStorage' = result.stored.sessionId
           /\ storedUserId' = result.stored.userId
           /\ authCall' = AuthCall("signIn", outcome, result.success, result.threw,
                                   result.error,
                                   IF outcome = "tokens" THEN Some(sid) ELSE Absent)
           /\ IF result.success
              THEN /\ url' = [path |-> redirectUrl, redirect |-> Absent]
                   /\ layout' = Mounted(result.stored.sessionId)
              ELSE UNCHANGED <<url, layout>>
    /\ UNCHANGED <<deployed, now, backendVars, editorVars>>

\* the visitor opens the sign-up page: by the link of the sign-in page, which
\* passes redirectUrl on, or by its address
OpenSignUp ==
    /\ url.path # SignUpPath
    /\ Goto(SignUpPath, IF url.path = SignInPath THEN Some(redirectUrl) ELSE Absent)
    /\ UNCHANGED <<deployed, localStorage, authSessions, storedUserId, authCall,
                   now, backendVars, editorVars>>

\* signUp of auth-client: the action (flow 'signUp') throws, or creates the
\* user and a session and returns; signUp reads nothing of what it returns
\* and writes nothing to localStorage
signUp(stored, outcome) ==
    IF outcome = "throws"
    THEN [stored |-> stored, success |-> FALSE, error |-> ErrAction]
    ELSE IF outcome = "throwsValue"
    THEN [stored |-> stored, success |-> FALSE, error |-> ErrSignUpFailed]
    ELSE [stored |-> stored, success |-> TRUE, error |-> ""]

\* handleSignUp, with passwords that match and are long enough (it returns
\* before the call otherwise).  The session-based page calls signUp of
\* auth-client; the Better Auth page calls authClient.signUp.email, which
\* signs the new user in.  On success the page goes to redirectUrl.  A new
\* session expires later than now, or never
handleSignUp(outcome, expirationTime) ==
    /\ url.path = SignUpPath
    /\ expirationTime # Undefined => expirationTime > now
    /\ outcome = "ok" => Cardinality(DOMAIN authSessions) < MaxSessions
    /\ LET sid == Min(SessionIds \ DOMAIN authSessions)
           result == IF deployed = "session"
                     THEN signUp(Stored(localStorage, storedUserId), outcome)
                     ELSE IF outcome = "ok"
                     THEN [stored |-> Stored(Some(sid), Some(UserId)),
                           success |-> TRUE, error |-> ""]
                     ELSE [stored |-> Stored(localStorage, storedUserId),
                           success |-> FALSE, error |-> ErrAction]
       IN  /\ authSessions' = IF outcome = "ok"
                              THEN (sid :> expirationTime) @@ authSessions
                              ELSE authSessions
           /\ localStorage' = result.stored.sessionId
           /\ storedUserId' = result.stored.userId
           /\ authCall' = AuthCall("signUp", outcome, result.success, FALSE,
                                   result.error,
                                   IF outcome = "ok" THEN Some(sid) ELSE Absent)
           /\ IF result.success
              THEN /\ url' = [path |-> redirectUrl, redirect |-> Absent]
                   /\ layout' = Mounted(result.stored.sessionId)
              ELSE UNCHANGED <<url, layout>>
    /\ UNCHANGED <<deployed, now, backendVars, editorVars>>

\* signOut of auth-client without its catch: a throwing sign-out action leaves
\* the keys in localStorage and the error reaches the caller
signOut_NoCatch(stored, outcome) ==
    IF outcome = "ok" THEN [stored |-> Stored(Absent, Absent), threw |-> FALSE]
    ELSE [stored |-> stored, threw |-> TRUE]

\* signOut of auth-client: both keys are removed after the sign-out action
\* returned, and in the catch when it threw
signOut(stored, outcome) ==
    IF outcome = "ok" THEN [stored |-> Stored(Absent, Absent), threw |-> FALSE]
    ELSE [stored |-> Stored(Absent, Absent), threw |-> FALSE]

\* handleSignOut: the sign-out action ends the session, or throws.  The
\* session layout calls signOut of auth-client and goes to the sign-in page;
\* the Better Auth layout calls authClient.signOut(), which rejects when the
\* action throws
handleSignOut(outcome) ==
    /\ Rendered = "admin"
    /\ deployed = "betterAuth" => layout.isAuthenticated
    /\ IF deployed = "betterAuth"
       THEN /\ UNCHANGED authCall
            /\ IF outcome = "throws"
               THEN UNCHANGED <<url, layout, localStorage, storedUserId, authSessions>>
               ELSE /\ authSessions' =
                         IF localStorage = Absent THEN authSessions
                         ELSE Without(authSessions, Get(localStorage))
                    /\ localStorage' = Absent
                    /\ storedUserId' = Absent
                    /\ Goto(SignInPath, Absent)
       ELSE LET result == signOut(Stored(localStorage, storedUserId), outcome)
            IN  /\ authSessions' =
                     IF outcome = "throws" \/ localStorage = Absent THEN authSessions
                     ELSE Without(authSessions, Get(localStorage))
                /\ localStorage' = result.stored.sessionId
                /\ storedUserId' = result.stored.userId
                /\ authCall' = AuthCall("signOut", outcome, ~result.threw,
                                        result.threw, "", Absent)
                /\ IF result.threw THEN UNCHANGED <<url, layout>>
                   ELSE Goto(SignInPath, Absent)
    /\ UNCHANGED <<deployed, now, backendVars, editorVars>>

\* time passes
Tick ==
    /\ now < MaxTime
    /\ now' = now + 1
    /\ UNCHANGED <<pageVars, backendVars, editorVars>>

NextAdmin ==
    \/ \E path \in AdminPaths : Visit(path)
    \/ AuthResolves
    \/ TrackPath
    \/ QueryResult
    \/ RedirectEffect
    \/ OpenSignIn
    \/ \E outcome \in {"throws", "throwsValue", "noTokens", "tokens"},
          expirationTime \in Times \cup {Undefined} :
          handleSignIn(outcome, expirationTime)
    \/ OpenSignUp
    \/ \E outcome \in {"throws", "throwsValue", "ok"},
          expirationTime \in Times \cup {Undefined} :
          handleSignUp(outcome, expirationTime)
    \/ \E outcome \in {"ok", "throws"} : handleSignOut(outcome)
    \/ Tick

\* the site is built with one of the two layouts
InitAdmin ==
    /\ deployed \in Layouts
    /\ InitPage
    /\ posts = <<>>
    /\ nextId = 1
    /\ now = 1
    /\ last = Ok("init", Null, Absent, Absent)
    /\ txn = [c \in Clients |-> Idle]
    /\ writes = [slug \in Slugs |-> 0]

SpecAdmin == InitAdmin /\ [][NextAdmin]_vars

\* ------------------------------------------------------- the post editors
ErrTitleRequired == "Title is required"
ErrTitleTooLong == "Title is too long (max 200 characters)"
ErrSlugRequired == "Slug is required"
ErrSlugPattern == "Slug can only contain lowercase letters, numbers, and hyphens"
ErrExcerptRequired == "Excerpt is required"
ErrExcerptTooLong == "Excerpt is too long (max 500 characters)"
ErrContentRequired == "Content is required"
ErrCreateFailed == "Failed to create post"
ErrUpdateFailed == "Failed to update post"
ErrDeleteFailed == "Failed to delete post"

\* validatePost without its test of the slug pattern
validatePost_NoPattern(form) ==
    IF trim(form.title) = <<>> THEN ErrTitleRequired
    ELSE IF Length(form.title) > TitleMax THEN ErrTitleTooLong
    ELSE IF trim(form.slug) = <<>> THEN ErrSlugRequired
    ELSE IF trim(form.excerpt) = <<>> THEN ErrExcerptRequired
    ELSE IF Length(form.excerpt) > ExcerptMax THEN ErrExcerptTooLong
    ELSE IF trim(form.content) = <<>> THEN ErrContentRequired
    ELSE ""

\* validatePost: the error it returns, '' when it returns ok
validatePost(form) ==
    IF trim(form.title) = <<>> THEN ErrTitleRequired
    ELSE IF Length(form.title) > TitleMax THEN ErrTitleTooLong
    ELSE IF trim(form.slug) = <<>> THEN ErrSlugRequired
    ELSE IF ~SlugPattern(form.slug) THEN ErrSlugPattern
    ELSE IF trim(form.excerpt) = <<>> THEN ErrExcerptRequired
    ELSE IF Length(form.excerpt) > ExcerptMax THEN ErrExcerptTooLong
    ELSE IF trim(form.content) = <<>> THEN ErrContentRequired
    ELSE ""

\* $effect "Load draft on mount": the form takes the fields of the persisted
\* draft when the title of the draft is not empty
LoadDraft(form, persisted) == IF persisted.title # <<>> THEN persisted ELSE form

\* the new-post page mounts: the form is declared empty, then the effects run
\* in the order they are declared: the draft is loaded, then the form is saved
\* as the draft
OpenNew ==
    /\ editor.page = "none"
    /\ LET form == LoadDraft(EmptyDraft, draft)
       IN  /\ editor' = [Declared("new") EXCEPT !.form = form]
           /\ draft' = form
    /\ UNCHANGED <<now, backendVars, pageVars>>

\* the edit page mounts: the form is declared empty and getById is asked
OpenEdit ==
    /\ editor.page = "none"
    /\ editor' = Declared("edit")
    /\ UNCHANGED <<draft, now, backendVars, pageVars>>

\* $effect "Load post data when available": query.data arrives, or arrives
\* anew, and the form takes its fields
QueryData(data) ==
    /\ editor.page = "edit"
    /\ editor' = [editor EXCEPT !.data = Some(data.slug), !.form = data,
                                !.submitted = FALSE, !.blurred = FALSE]
    /\ editor' # editor
    /\ UNCHANGED <<draft, now, backendVars, pageVars>>

\* the form of the page is on the screen
FormShown == editor.page = "new" \/ (editor.page = "edit" /\ editor.data # Absent)

\* bind:value: the user changes a field; on the new-post page the auto-save
\* effect saves the form as the draft
Type(field, value) ==
    /\ FormShown
    /\ editor.form[field] # value
    /\ LET form == [editor.form EXCEPT ![field] = value]
       IN  /\ editor' = [editor EXCEPT !.form = form, !.submitted = FALSE,
                                       !.blurred = FALSE]
           /\ draft' = IF editor.page = "new" THEN form ELSE draft
    /\ UNCHANGED <<now, backendVars, pageVars>>

\* form-actions whose buttons are never disabled
Busy_Never == FALSE

\* disabled={isSubmitting || isDeleting}: the buttons of form-actions cannot
\* be pressed (the new-post page has no isDeleting; there it stays false)
Busy == editor.isSubmitting \/ editor.isDeleting

\* handleSubmit, up to its await
handleSubmit(shouldPublish) ==
    /\ FormShown
    /\ ~Busy
    /\ Len(editor.pending) < MaxInFlight
    /\ LET validation == validatePost(editor.form)
       IN  editor' =
             IF validation # ""
             THEN [editor EXCEPT !.error = validation, !.isSubmitting = FALSE,
                                 !.submitted = TRUE, !.blurred = FALSE]
             ELSE [editor EXCEPT !.error = "", !.isSubmitting = TRUE,
                                 !.submitted = TRUE, !.blurred = FALSE,
                                 !.pending =
                                    Append(@, [fn |-> IF editor.page = "new"
                                                      THEN "create" ELSE "update",
                                               published |-> shouldPublish])]
    /\ UNCHANGED <<draft, now, backendVars, pageVars>>

\* handleDelete of the edit page, confirmed by the user, up to its await
handleDelete ==
    /\ editor.page = "edit"
    /\ editor.data # Absent
    /\ ~Busy
    /\ Len(editor.pending) < MaxInFlight
    /\ editor' = [editor EXCEPT !.isDeleting = TRUE, !.submitted = FALSE, !.blurred = FALSE,
                                !.pending = Append(@, [fn |-> "remove",
                                                       published |-> FALSE])]
    /\ UNCHANGED <<draft, now, backendVars, pageVars>>

\* the message a handler shows when what the mutation threw has none
Fallback(fn) ==
    IF fn = "create" THEN ErrCreateFailed
    ELSE IF fn = "update" THEN ErrUpdateFailed
    ELSE ErrDeleteFailed

\* pending without its element i
Dropped(pending, i) ==
    SubSeq(pending, 1, i - 1) \o SubSeq(pending, i + 1, Len(pending))

\* a Settle that goes to /admin whatever the mutation did
Settle_AlwaysGoto(i, outcome, message) ==
    /\ i \in DOMAIN editor.pending
    /\ editor' = Closed
    /\ draft' = IF editor.pending[i].fn = "create" /\ outcome = "ok"
                THEN EmptyDraft ELSE draft
    /\ UNCHANGED <<now, backendVars, pageVars>>

\* handleSubmit and handleDelete, after their await: mutation i returned, and
\* the page clears the draft (new-post page) and goes to /admin; or it threw
\* with a message (which may be empty), and the page shows it
Settle(i, outcome, message) ==
    /\ i \in DOMAIN editor.pending
    /\ LET fn == editor.pending[i].fn
       IN  IF outcome = "ok"
           THEN /\ editor' = Closed
                /\ draft' = IF fn = "create" THEN EmptyDraft ELSE draft
           ELSE /\ editor' =
                     [editor EXCEPT !.error = IF message # "" THEN message
                                              ELSE Fallback(fn),
                                    !.isSubmitting =
                                        IF fn = "remove" THEN @ ELSE FALSE,
                                    !.isDeleting =
                                        IF fn = "remove" THEN FALSE ELSE @,
                                    !.pending = Dropped(@, i),
                                    !.submitted = FALSE, !.blurred = FALSE]
                /\ UNCHANGED draft
    /\ UNCHANGED <<now, backendVars, pageVars>>

\* clearDraft, confirmed by the user
clearDraft ==
    /\ editor.page = "new"
    /\ ~editor.isSubmitting
    /\ editor' = [editor EXCEPT !.form = EmptyDraft, !.submitted = FALSE,
                                !.blurred = FALSE]
    /\ draft' = EmptyDraft
    /\ editor' # editor
    /\ UNCHANGED <<now, backendVars, pageVars>>

\* the user leaves the page or reloads: the component is destroyed, the
\* persisted draft stays
Leave ==
    /\ editor.page # "none"
    /\ editor' = Closed
    /\ UNCHANGED <<draft, now, backendVars, pageVars>>

NextEditor ==
    \/ OpenNew
    \/ OpenEdit
    \/ \E data \in StoredPosts : QueryData(data)
    \/ \E field \in Fields : \E value \in Values(field) : Type(field, value)
    \/ \E shouldPublish \in BOOLEAN : handleSubmit(shouldPublish)
    \/ handleDelete
    \/ \E i \in 1..MaxInFlight, outcome \in {"ok", "throws"},
          message \in {ErrSlugExists, ""} :
          Settle(i, outcome, message)
    \/ clearDraft
    \/ Leave

SpecEditor == Init /\ [][NextEditor]_vars

\* --------------------------------------------------------- slug generation
\* the user presses a key in the title field: the character is appended
Key(c) ==
    /\ Length(editor.form.title) < MaxLen
    /\ Type("title", Text(editor.form.title \o Run(c, 1)))

\* a generateSlug that derives the slug from the title at every blur
generateSlug_Always ==
    /\ FormShown
    /\ LET form == [editor.form EXCEPT !.slug = slugify(editor.form.title)]
       IN  /\ editor' = [editor EXCEPT !.form = form, !.submitted = FALSE,
                                       !.blurred = TRUE]
           /\ draft' = IF editor.page = "new" THEN form ELSE draft
    /\ UNCHANGED <<now, backendVars, pageVars>>

\* onblur={generateSlug} of the title field: the slug is derived from the
\* title when it is empty or is the one derived before, which the new-post
\* page takes to be slugify of the title of the saved draft and the edit page
\* the slug of query.data; the auto-save effect of the new-post page then
\* saves the form
generateSlug ==
    /\ FormShown
    /\ LET slug == editor.form.slug
           derived == IF editor.page = "new" THEN slugify(draft.title)
                      ELSE Get(editor.data)
           form == IF slug = <<>> \/ slug = derived
                   THEN [editor.form EXCEPT !.slug = slugify(editor.form.title)]
                   ELSE editor.form
       IN  /\ editor' = [editor EXCEPT !.form = form, !.submitted = FALSE,
                                       !.blurred = TRUE]
           /\ draft' = IF editor.page = "new" THEN form ELSE draft
    /\ UNCHANGED <<now, backendVars, pageVars>>

\* the title and slug fields of the two pages, typed into and left
NextSlug ==
    \/ OpenNew
    \/ OpenEdit
    \/ \E data \in StoredPosts : QueryData(data)
    \/ \E c \in Chars : Key(c)
    \/ Type("title", <<>>)
    \/ \E value \in SlugTexts : Type("slug", value)
    \/ generateSlug

SpecSlug == Init /\ [][NextSlug]_vars

\* ============================================================ properties
\* the posts that have slug
WithSlug(tbl, slug) == {i \in DOMAIN tbl : tbl[i].slug = slug}

\* C1: a create whose slug an existing post already has throws 'A post with
\* this slug already exists' and leaves the posts table as it was: no post is
\* inserted and no id is used up.
C1_DuplicateCreateRejected ==
    [][(last'.op = "create" /\ WithSlug(posts, Get(last'.slug)) # {})
       => (/\ ~last'.ok
           /\ last'.error = ErrSlugExists
           /\ posts' = posts
           /\ nextId' = nextId)]_vars

C1_Witness ==
    /\ last.op = "create"
    /\ ~last.ok
    /\ last.error = ErrSlugExists
    /\ WithSlug(posts, Get(last.slug)) # {}

\* C2: in every reachable state no two posts have the same slug.
C2_SlugUnique ==
    \A i, j \in DOMAIN posts : posts[i].slug = posts[j].slug => i = j

\* two clients whose create calls of one slug both ran the slugExists check,
\* finding no post, before either inserted, and that have both finished
RacedPairs ==
    {pair \in Clients \X Clients :
        /\ pair[1] # pair[2]
        /\ txn[pair[1]].pc = "done" /\ txn[pair[2]].pc = "done"
        /\ pair[2] \in txn[pair[1]].raced /\ pair[1] \in txn[pair[2]].raced}

C4_PublishedAtSetOnce ==
    [][\A i \in DOMAIN posts \cap DOMAIN posts' :
          posts[i].publishedAt # Undefined
          => posts'[i].publishedAt = posts[i].publishedAt]_vars

\* the limits listPublished is called with
Limits == Opt(0..MaxPosts)

\* C5: every post listPublished returns is a post of the table that has
\* published = true, whatever the limit.
C5_ListPublishedOnlyPublished ==
    \A limit \in Limits :
        \A id \in Range(listPublished(posts, limit)) :
            id \in DOMAIN posts /\ posts[id].published

\* a post that update unpublished is left out of a listing that is not empty
C5_Witness ==
    /\ \E i \in DOMAIN posts : ~posts[i].published /\ posts[i].publishedAt # Undefined
    /\ listPublished(posts, Absent) # <<>>

\* the page sizes and cursors listAll is called with
PageSizes == 0..MaxPosts
Cursors == Opt(Times \X Ids)

\* no query on the table returns the post id
Gone(tbl, id) ==
    /\ \A limit \in Limits : id \notin Range(listPublished(tbl, limit))
    /\ \A n \in PageSizes, c \in Cursors : id \notin Range(listAll(tbl, n, c).page)
    /\ getById(tbl, id) = Absent
    /\ \A slug \in Slugs : getBySlug(tbl, slug) # Some(id)

\* the posts that were removed
Removed == IssuedIds \ DOMAIN posts

C7_GetBySlugPublishedOnly ==
    \A slug \in Slugs :
        LET r == getBySlug(posts, slug)
        IN  /\ r # Absent => /\ Get(r) \in WithSlug(posts, slug)
                             /\ posts[Get(r)].published
            /\ (\A i \in WithSlug(posts, slug) : ~posts[i].published) => r = Absent

\* one slug has a draft and yields null, the other has a post that is returned
C7_Witness ==
    /\ \E slug \in Slugs :
          /\ WithSlug(posts, slug) # {}
          /\ getBySlug(posts, slug) = Absent
    /\ \E slug \in Slugs : getBySlug(posts, slug) # Absent

\* the backend functions the admin pages call
AdminFunctions == {"listAll", "getById", "create", "update", "remove"}

\* C10: listAll, getById, create, update and remove succeed only for a caller
\* that has an identity (a valid session).
C10_AdminCallsNeedSession ==
    (last.op \in AdminFunctions /\ last.ok) => last.identity # Null

\* C8: loading /blog/<slug> for a slug that no published post has yields
\* the 404 error 'Post not found', whichever version of load the page has.
C8_MissingPostIs404 ==
    \A slug \in Slugs :
        (\A i \in WithSlug(posts, slug) : ~posts[i].published)
        => \A r \in {load(posts, slug), loadOr404(posts, slug)} :
              r.status = 404 /\ r.message = ErrNotFound

\* C9: the admin layout shows the protected pages only while the browser
\* holds a valid session.
C9_AdminOnlyWhenAuthenticated == Rendered = "admin" => Authenticated

\* C11: isAuthenticated called with a session id returns true exactly when a
\* session with that id exists and has no expiration time or an expiration
\* time strictly greater than the current time; it returns false when there
\* is no such session and when the expiration time is now or earlier.
C11_IsAuthenticatedExact ==
    \A sid \in SessionIds :
        isAuthenticated(authSessions, Some(sid), Null, now)
        = (/\ sid \in DOMAIN authSessions
           /\ (authSessions[sid] = Undefined \/ authSessions[sid] > now))

\* C12: after every signIn that reports success a session was created, and
\* localStorage holds the id of that session and the id of its user.
C12_SignInSuccessStoresSession ==
    (authCall.op = "signIn" /\ authCall.success)
    => (/\ authCall.session # Absent
        /\ localStorage = authCall.session
        /\ storedUserId = Some(UserId))

C14_DraftSurvivesReload ==
    [][(editor.page = "none" /\ editor'.page = "new")
       => (editor'.form = draft /\ draft' = draft)]_vars

\* the rules of the forms in their order: what must hold, and the message shown
\* when it does not
FormRules(form) ==
    <<<<trim(form.title) # <<>>, ErrTitleRequired>>,
      <<Length(form.title) <= TitleMax, ErrTitleTooLong>>,
      <<trim(form.slug) # <<>>, ErrSlugRequired>>,
      <<SlugPattern(form.slug), ErrSlugPattern>>,
      <<trim(form.excerpt) # <<>>, ErrExcerptRequired>>,
      <<Length(form.excerpt) <= ExcerptMax, ErrExcerptTooLong>>,
      <<trim(form.content) # <<>>, ErrContentRequired>>>>

\* the rules the form fails
Failing(form) == {k \in DOMAIN FormRules(form) : ~FormRules(form)[k][1]}

\* C15: a submit of the new-post or edit form calls create or update only
\* when the form passes every rule; otherwise the message of the first rule
\* it fails is shown and no mutation is called.
C15_SubmitOnlyWhenValid ==
    /\ [](editor.submitted
          => IF Failing(editor.form) = {}
             THEN /\ editor.pending # <<>>
                  /\ editor.pending[Len(editor.pending)].fn
                       = (IF editor.page = "new" THEN "create" ELSE "update")
                  /\ editor.error = ""
             ELSE /\ editor.pending = <<>>
                  /\ editor.error = FormRules(editor.form)[Min(Failing(editor.form))][2])
    /\ [][(/\ Len(editor'.pending) > Len(editor.pending)
           /\ editor'.pending[Len(editor'.pending)].fn \in {"create", "update"})
          => Failing(editor.form) = {}]_vars

\* a submit was refused for the slug pattern, on a form that also fails a
\* later rule
C15_Witness ==
    /\ editor.submitted
    /\ editor.error = ErrSlugPattern
    /\ Length(editor.form.excerpt) > ExcerptMax
    /\ editor.pending = <<>>

\* C16: update on an id for which no post exists fails with 'Post not found'
\* and changes nothing in the posts table.
C16_UpdateMissingPostFails ==
    [][(last'.op = "update" /\ Get(last'.id) \notin DOMAIN posts)
       => (/\ ~last'.ok
           /\ last'.error = ErrNotFound
           /\ posts' = posts
           /\ nextId' = nextId)]_vars

\* update was called on a removed post while another post exists
C16_Witness ==
    /\ last.op = "update"
    /\ ~last.ok
    /\ last.error = ErrNotFound
    /\ Get(last.id) \notin DOMAIN posts
    /\ posts # <<>>

\* C17: update is rejected with 'A post with this slug already exists', the
\* table unchanged, whenever the supplied slug differs from the post's slug
\* and another post has it, whatever the slug (the empty string too); an
\* update that supplies the post's own slug is accepted.
C17_UpdateDuplicateRejected ==
    [][(last'.op = "update" /\ Get(last'.id) \in DOMAIN posts /\ last'.slug # Absent)
       => LET id == Get(last'.id)
              slug == Get(last'.slug)
          IN  /\ (slug # posts[id].slug /\ WithSlug(posts, slug) \ {id} # {})
                 => (~last'.ok /\ last'.error = ErrSlugExists /\ posts' = posts)
              /\ slug = posts[id].slug => last'.ok]_vars

\* C18: a successful update changes, in the post it is called on, only the
\* slug when one is supplied, published when it is supplied, updatedAt, and
\* publishedAt when the post is published for the first time; createdAt and
\* every other post are as before.
C18_UpdateFrame ==
    [][(last'.op = "update" /\ last'.ok)
       => LET id == Get(last'.id)
          IN  /\ DOMAIN posts' = DOMAIN posts
              /\ \A j \in DOMAIN posts \ {id} : posts'[j] = posts[j]
              /\ posts'[id].createdAt = posts[id].createdAt
              /\ posts'[id].slug = (IF last'.slug = Absent THEN posts[id].slug
                                    ELSE Get(last'.slug))
              /\ posts'[id].publishedAt # posts[id].publishedAt
                 => (/\ posts[id].publishedAt = Undefined
                     /\ ~posts[id].published
                     /\ posts'[id].published)]_vars

\* C19: in every reachable state every post with published = true has a
\* defined publishedAt.
C19_PublishedHasPublishedAt ==
    \A i \in DOMAIN posts : posts[i].published => posts[i].publishedAt # Undefined

\* a post that was created as a draft has been published by update
C19_Witness ==
    \E i \in DOMAIN posts :
        /\ posts[i].published
        /\ posts[i].publishedAt > posts[i].createdAt

\* the published posts
Published(tbl) == {i \in DOMAIN tbl : tbl[i].published}

\* C20: listPublished returns at most limit posts (20 when no limit is
\* given): no post twice, as many as the limit allows, in descending
\* publishedAt order, and no published post it leaves out was published
\* after one it returns.
C20_ListPublishedNewestFirst ==
    \A limit \in Limits :
        LET r == listPublished(posts, limit)
            n == IF limit = Absent THEN 20 ELSE Get(limit)
        IN  /\ Len(r) <= n
            /\ Range(r) \subseteq Published(posts)
            /\ Cardinality(Range(r)) = Len(r)
            /\ Len(r) = n \/ Range(r) = Published(posts)
            /\ \A k \in 1..(Len(r) - 1) :
                  posts[r[k]].publishedAt >= posts[r[k + 1]].publishedAt
            /\ \A i \in Published(posts) \ Range(r), j \in Range(r) :
                  posts[i].publishedAt <= posts[j].publishedAt

\* two posts published at different times, and a listing of one post returns
\* the later one
C20_Witness ==
    \E i, j \in Published(posts) :
        /\ posts[i].publishedAt > posts[j].publishedAt
        /\ listPublished(posts, Some(1)) = <<i>>

\* the pages the admin page reads with page size n: the first one (cursor
\* null) and, after loadMore, the one at its continueCursor
Pages(tbl, n) ==
    LET first == listAll(tbl, n, Absent)
    IN  <<first, listAll(tbl, n, first.continueCursor)>>

\* C21: listAll returns posts whatever their published flag, drafts
\* included, in descending createdAt order, at most numItems per page: a page
\* holds the newest posts not yet returned, each post once, and the pages
\* together leave no post out while there are fewer posts than they can hold.
C21_ListAllNewestFirst ==
    \A n \in PageSizes :
        LET pages == Pages(posts, n)
            first == pages[1].page
            second == pages[2].page
            both == first \o second
        IN  /\ Len(first) <= n /\ Len(second) <= n
            /\ Range(both) \subseteq DOMAIN posts
            /\ Cardinality(Range(both)) = Len(both)
            /\ Len(both) = 2 * n \/ Range(both) = DOMAIN posts
            /\ \A k \in 1..(Len(both) - 1) :
                  posts[both[k]].createdAt >= posts[both[k + 1]].createdAt
            /\ \A i \in DOMAIN posts \ Range(both), j \in Range(both) :
                  posts[i].createdAt <= posts[j].createdAt

\* a draft created after a published post is the only post of the first page
\* of size one, and the published post is on the next page
C21_Witness ==
    \E i, j \in DOMAIN posts :
        /\ ~posts[i].published /\ posts[j].published
        /\ posts[i].createdAt > posts[j].createdAt
        /\ Pages(posts, 1)[1].page = <<i>>
        /\ Pages(posts, 1)[2].page = <<j>>

\* the admin layout has the answer about the authentication state
Resolved ==
    IF deployed = "session" THEN layout.data # "undefined" ELSE ~layout.isLoading

\* the admin layout treats the visitor as authenticated
TreatedAuthenticated ==
    IF deployed = "session" THEN layout.data = "true" ELSE layout.isAuthenticated

\* C22: after signUp succeeded and the sign-up page went to the redirect
\* target under /admin, then, while the session that sign-up created is valid,
\* the admin layout, once it has its answer, treats the user as authenticated
\* and shows the protected content; it does not redirect to the sign-in page.
C22_SignUpThenAdmin ==
    (/\ authCall.op = "signUp" /\ authCall.success
     /\ isAuthenticated(authSessions, authCall.session, Null, now)
     /\ InAdmin
     /\ Resolved)
    => (TreatedAuthenticated /\ Rendered = "admin")

\* C23: the admin layout redirects to the sign-in page only when the
\* authentication state has resolved to not authenticated, never while it is
\* loading (query data undefined, or auth.isLoading).
C23_NoRedirectWhileLoading ==
    [][(InAdmin /\ url'.path = SignInPath /\ url'.redirect # Absent)
       => (Resolved /\ ~TreatedAuthenticated)]_vars

\* the layout has redirected a visitor who had opened /admin/new
C23_Witness ==
    /\ url.path = SignInPath
    /\ url.redirect = Some("/admin/new")

\* C24: when the admin layout redirects from path p, the sign-in page is
\* opened with redirect=p; a sign-in that reports success goes to the path of
\* the redirect parameter, and to /admin when there is none.
C24_RedirectRoundTrip ==
    /\ [][(InAdmin /\ url'.path = SignInPath /\ url'.redirect # Absent)
          => url'.redirect = Some(url.path)]_vars
    /\ [][(/\ url.path = SignInPath
           /\ authCall' # authCall
           /\ authCall'.op = "signIn" /\ authCall'.success)
          => url' = [path |-> IF url.redirect = Absent THEN "/admin"
                              ELSE Get(url.redirect),
                     redirect |-> Absent]]_vars

\* a sign-in has brought the visitor back to /admin/new
C24_Witness ==
    /\ url.path = "/admin/new"
    /\ authCall.op = "signIn"
    /\ authCall.success
    /\ authCall.session # Absent
    /\ localStorage = authCall.session

\* C28: when the sign-in action throws, signIn does not throw: it returns
\* success: false with an error message, and localStorage is as it was.
C28_SignInCatches ==
    [][(/\ authCall' # authCall
        /\ authCall'.op = "signIn"
        /\ authCall'.outcome \in {"throws", "throwsValue"})
       => (/\ ~authCall'.threw
           /\ ~authCall'.success
           /\ authCall'.error # ""
           /\ localStorage' = localStorage
           /\ storedUserId' = storedUserId)]_vars

\* the sign-in action threw while a session id was stored, and it still is
C28_Witness ==
    /\ authCall.op = "signIn"
    /\ authCall.outcome = "throws"
    /\ authCall.error = ErrAction
    /\ authCall.before # Absent
    /\ localStorage = authCall.before

\* C25: a submit that fails, by validation or by an error of the backend,
\* leaves the page where it is, with the error message set and the form
\* enabled again; the page is left for /admin by a handler only after its
\* mutation succeeded.
C25_FailedSubmitStays ==
    /\ [][(\E shouldPublish \in BOOLEAN :
             handleSubmit(shouldPublish) /\ validatePost(editor.form) # "")
          => (/\ editor'.page = editor.page
              /\ editor'.error = validatePost(editor.form)
              /\ ~editor'.isSubmitting
              /\ editor'.pending = editor.pending)]_vars
    /\ [][(\E i \in 1..MaxInFlight, message \in {ErrSlugExists, ""} :
             Settle(i, "throws", message))
          => (/\ editor'.page = editor.page
              /\ editor'.error # ""
              /\ ~editor'.isSubmitting
              /\ ~editor'.isDeleting
              /\ editor'.form = editor.form)]_vars
    /\ [][(editor.page # "none" /\ editor'.page = "none")
          => (\/ Leave
              \/ \E i \in 1..MaxInFlight, message \in {ErrSlugExists, ""} :
                    Settle(i, "ok", message))]_vars

\* an update threw without a message: the edit page shows its own message
\* and the form can be submitted again
C25_Witness ==
    /\ editor.page = "edit"
    /\ editor.error = ErrUpdateFailed
    /\ ~Busy
    /\ editor.pending = <<>>

\* C26: an editor page has at most one mutation in flight; while it has one,
\* the flag of the handler that called it is set; the new-post page calls
\* create only.
C26_OneMutationInFlight ==
    /\ Len(editor.pending) <= 1
    /\ \A i \in DOMAIN editor.pending :
          /\ IF editor.pending[i].fn = "remove"
             THEN editor.isDeleting ELSE editor.isSubmitting
          /\ editor.page = "new" <=> editor.pending[i].fn = "create"

\* remove is in flight on the edit page
C26_Witness ==
    /\ editor.page = "edit"
    /\ editor.isDeleting
    /\ Len(editor.pending) = 1
    /\ editor.pending[1].fn = "remove"

\* C27: on the edit page, once the post is loaded into the form, the form
\* fields change through user input only.
C27_FormOnlyByInput ==
    [][(/\ editor.page = "edit" /\ editor.data # Absent
        /\ editor'.page = "edit"
        /\ editor'.form # editor.form)
       => \E field \in Fields : \E value \in Values(field) :
             Type(field, value)]_vars

\* C29: slugify is idempotent, and what it returns for a title is empty or
\* made of lower-case letters, digits and single hyphens, with no hyphen
\* first or last, so that a result that is not empty passes /^[a-z0-9-]+$/.
C29_SlugifyWellFormed ==
    LET s == slugify(editor.form.title)
    IN  /\ slugify(s) = s
        /\ Text(s) = s
        /\ s # <<>> =>
              /\ SlugPattern(s)
              /\ s[1].c # "-"
              /\ s[Len(s)].c # "-"
              /\ \A k \in DOMAIN s : s[k].c = "-" => s[k].n = 1

\* the slug a-a was generated from the title A!_a
C29_Witness ==
    /\ editor.form.title = Run("A", 1) \o Run("!", 1) \o Run("_", 1) \o Run("a", 1)
    /\ editor.form.slug = slugify(editor.form.title)
    /\ editor.form.slug = Run("a", 1) \o Run("-", 1) \o Run("a", 1)

\* the slug generateSlug compares the slug of the form with
Derived ==
    IF editor.page = "new" THEN slugify(draft.title) ELSE Get(editor.data)

\* C30: generateSlug leaves a slug alone that is neither empty nor the
\* derived one (new page: slugify of the title of the saved draft; edit
\* page: the stored slug of the post); a slug that is empty or the derived
\* one is replaced by slugify of the title; no other field changes.
C30_GenerateSlugKeepsCustom ==
    [][generateSlug =>
        /\ editor'.form = [editor.form EXCEPT !.slug = editor'.form.slug]
        /\ IF editor.form.slug # <<>> /\ editor.form.slug # Derived
           THEN editor'.form.slug = editor.form.slug
           ELSE editor'.form.slug = slugify(editor.form.title)]_vars

\* the title field of the edit page was left with a slug the user had typed,
\* and the slug is still the typed one, not the one of the title
C30_Witness ==
    /\ editor.blurred
    /\ editor.page = "edit"
    /\ editor.form.slug = Run("A", 1)
    /\ slugify(editor.form.title) = Run("a", 1) \o Run("-", 1) \o Run("a", 1)

=============================================================================
